---- MODULE Spec2Model ----
(***************************************************************************)
(* Clue-ai client (src/app/page.tsx): the locator text parser              *)
(* parseLocatorText, the submission workflow onHelp / runLocateLines, the  *)
(* capped history list with its localStorage copy, and the line highlight  *)
(* classification of the code overlay.                                     *)
(*                                                                         *)
(* A text is a sequence of characters; a character is a one-character      *)
(* string, except the two non-ASCII characters the source uses, which are  *)
(* written "ENDASH" (U+2013) and "EMDASH" (U+2014).                        *)
(***************************************************************************)
EXTENDS Integers, Sequences, FiniteSets, TLC

VARIABLES
  \* ---- React state of Page (page.tsx 69-86)
  code, ask, images, imageName, imagePreview, aiText, isLoading,
  subjectMode, history, lineHints, lineHintNote, isLocating,
  \* ---- window.localStorage["clueai-history-v1"]
  storage,
  \* ---- the running onHelp call: its position, the values its closure
  \* ---- captured at the click, its local workingCode, the fetches it issued
  \* ---- with their replies, and how often it inserted into the history
  mounted, pc, snap, workingCode, calls, pushes,
  \* ---- Date.now() and the bookkeeping that bounds a run
  now, inputs,
  \* ---- one call of parseLocatorText: its arguments, locals and result
  pForm, pText, pTotal, pPc, pRanges, pNote, pOut

appVars == <<code, ask, images, imageName, imagePreview, aiText, isLoading,
             subjectMode, history, lineHints, lineHintNote, isLocating,
             storage, mounted, pc, snap, workingCode, calls, pushes, now,
             inputs>>
parseVars == <<pForm, pText, pTotal, pPc, pRanges, pNote, pOut>>
vars == <<appVars, parseVars>>

----------------------------------------------------------------------------
(* Bounds of the model *)

\* longest generated locator text, in lines
MaxLines == 2
\* largest line number in a generated bullet
MaxNum == 3
\* largest totalLines handed to parseLocatorText with a generated text
MaxTotal == 4
\* largest totalLines handed to parseLocatorText with an example text
MaxExampleTotal == 13
\* images attached at once
MaxImages == 2
\* what the user puts in during one run: edits of the inputs (typing,
\* attaching, removing, mode changes) and submissions, taken together
MaxInputs == 3

----------------------------------------------------------------------------
(* Characters and strings, as JavaScript treats them *)

Max(a, b) == IF a >= b THEN a ELSE b
Min(a, b) == IF a <= b THEN a ELSE b

Digits == <<"0", "1", "2", "3", "4", "5", "6", "7", "8", "9">>
IsDigit(c) == \E i \in 1..10 : Digits[i] = c
DigitVal(c) == (CHOOSE i \in 1..10 : Digits[i] = c) - 1

\* \s of a JavaScript regular expression, and the white space trim() removes
IsSpace(c) == c \in {" ", "\t", "\r", "\n"}
\* "." of a JavaScript regular expression without the s flag
IsDotChar(c) == c \notin {"\n", "\r"}

LowerCase == <<"a", "b", "c", "d", "e", "f", "g", "h", "i", "j", "k", "l", "m",
               "n", "o", "p", "q", "r", "s", "t", "u", "v", "w", "x", "y", "z">>
UpperCase == <<"A", "B", "C", "D", "E", "F", "G", "H", "I", "J", "K", "L", "M",
               "N", "O", "P", "Q", "R", "S", "T", "U", "V", "W", "X", "Y", "Z">>
ToUpperChar(c) ==
  IF \E i \in 1..26 : LowerCase[i] = c
  THEN UpperCase[CHOOSE i \in 1..26 : LowerCase[i] = c]
  ELSE c
ToUpperCase(s) == [i \in 1..Len(s) |-> ToUpperChar(s[i])]

StartsWith(s, prefix) ==
  /\ Len(s) >= Len(prefix)
  /\ SubSeq(s, 1, Len(prefix)) = prefix

\* s.slice(n) for 0 <= n
Slice(s, n) == SubSeq(s, n + 1, Len(s))

\* first index >= i of s whose character is not white space (Len(s)+1 if none)
RECURSIVE SkipSpace(_, _)
SkipSpace(s, i) ==
  IF i <= Len(s) /\ IsSpace(s[i]) THEN SkipSpace(s, i + 1) ELSE i

\* first index >= i of s whose character is not a digit (Len(s)+1 if none)
RECURSIVE SkipDigits(_, _)
SkipDigits(s, i) ==
  IF i <= Len(s) /\ IsDigit(s[i]) THEN SkipDigits(s, i + 1) ELSE i

\* last index <= i of s whose character is not white space (0 if none)
RECURSIVE SkipSpaceBack(_, _)
SkipSpaceBack(s, i) ==
  IF i >= 1 /\ IsSpace(s[i]) THEN SkipSpaceBack(s, i - 1) ELSE i

TrimStart(s) == SubSeq(s, SkipSpace(s, 1), Len(s))
Trim(s) == SubSeq(s, SkipSpace(s, 1), SkipSpaceBack(s, Len(s)))

\* ToNumber reading the last digit only
ToNumberLastDigit(d) == IF Len(d) = 0 THEN 0 ELSE DigitVal(d[Len(d)])

\* Number(d) of a string of decimal digits
RECURSIVE ToNumber(_)
ToNumber(d) ==
  IF Len(d) = 0 THEN 0
  ELSE 10 * ToNumber(SubSeq(d, 1, Len(d) - 1)) + DigitVal(d[Len(d)])

\* String(n) of an integer n >= 0
RECURSIVE NumberToString(_)
NumberToString(n) ==
  IF n < 10 THEN <<Digits[n + 1]>>
  ELSE NumberToString(n \div 10) \o <<Digits[(n % 10) + 1]>>

\* text.split(/\r?\n/): a line ends at every "\n", and a "\r" right before
\* that "\n" belongs to the separator
StripCR(line) ==
  IF Len(line) > 0 /\ line[Len(line)] = "\r"
  THEN SubSeq(line, 1, Len(line) - 1)
  ELSE line
RECURSIVE SplitFrom(_, _, _)
SplitFrom(text, i, cur) ==
  IF i > Len(text) THEN <<cur>>
  ELSE IF text[i] = "\n"
       THEN <<StripCR(cur)>> \o SplitFrom(text, i + 1, <<>>)
       ELSE SplitFrom(text, i + 1, Append(cur, text[i]))
SplitLines(text) == SplitFrom(text, 1, <<>>)

----------------------------------------------------------------------------
(* parseLocatorText (page.tsx 16-48) *)

NoMatch == [ok |-> FALSE, m1 |-> <<>>, has2 |-> FALSE, m2 |-> <<>>, m3 |-> <<>>]

\* \s*(.+)$ from index i of the line: \s* is greedy and gives characters
\* back until (.+) has at least one character, all of them "." characters.
\* The start of group 3, or 0 when there is no match.
ReasonStart(line, i) ==
  LET w == SkipSpace(line, i)
      fits(s) == s <= Len(line) /\ \A k \in s..Len(line) : IsDotChar(line[k])
      cand == {s \in i..w : fits(s)}
  IN IF cand = {} THEN 0 ELSE CHOOSE s \in cand : \A t \in cand : t <= s

\* \s*\|\s*(.+)$ from index i of the line
MatchTail(line, i, m1, has2, m2) ==
  LET bar == SkipSpace(line, i)
  IN IF bar <= Len(line) /\ line[bar] = "|"
     THEN LET s == ReasonStart(line, bar + 1)
          IN IF s = 0 THEN NoMatch
             ELSE [ok |-> TRUE, m1 |-> m1, has2 |-> has2, m2 |-> m2,
                   m3 |-> SubSeq(line, s, Len(line))]
     ELSE NoMatch

\* line.match(/^\s*-\s*(\d+)(?:\s*[-ENDASH]\s*(\d+))?\s*\|\s*(.+)$/i).
\* White space, digits, the dashes and the bar are disjoint classes, so the
\* greedy choice at every quantifier is the only one that can succeed.
MatchBullet(line) ==
  LET dash == SkipSpace(line, 1)
  IN IF ~(dash <= Len(line) /\ line[dash] = "-") THEN NoMatch
     ELSE
     LET d1 == SkipSpace(line, dash + 1)
         e1 == SkipDigits(line, d1)
     IN IF e1 = d1 THEN NoMatch
        ELSE
        LET m1 == SubSeq(line, d1, e1 - 1)
            sep == SkipSpace(line, e1)
            d2 == SkipSpace(line, sep + 1)
            e2 == SkipDigits(line, d2)
            group == /\ sep <= Len(line)
                     /\ line[sep] \in {"-", "ENDASH"}
                     /\ e2 > d2
        IN IF group
           THEN MatchTail(line, e2, m1, TRUE, SubSeq(line, d2, e2 - 1))
           ELSE MatchTail(line, e1, m1, FALSE, <<>>)

NotePrefix == <<"N", "O", "T", "E", ":">>

\* NormalizedEnd keeping a second number smaller than the first
NormalizedEndAsGiven(start, endRaw) == endRaw

\* the end a bullet is given before padding (page.tsx 27-29)
NormalizedEnd(start, endRaw) == IF endRaw >= start THEN endRaw ELSE start

\* ParseLine keeping the first note instead of the last
ParseLineFirstNote(acc, line) ==
  LET m == MatchBullet(line)
  IN IF m.ok
     THEN LET start == ToNumber(m.m1)
              endRaw == IF m.has2 THEN ToNumber(m.m2) ELSE start
          IN IF start > 0
             THEN [acc EXCEPT !.ranges =
                     Append(@, [start |-> start,
                                end |-> IF endRaw >= start THEN endRaw ELSE start,
                                reason |-> Trim(m.m3)])]
             ELSE acc
     ELSE IF StartsWith(ToUpperCase(line), <<"N", "O", "T", "E", ":">>)
             /\ acc.note = <<>>
          THEN [acc EXCEPT !.note = Trim(Slice(line, 5))]
          ELSE acc

\* one turn of the forEach callback (page.tsx 23-38) on the accumulator
\* acc = [ranges, note]
ParseLine(acc, line) ==
  LET m == MatchBullet(line)
  IN IF m.ok
     THEN LET start == ToNumber(m.m1)
              endRaw == IF m.has2 THEN ToNumber(m.m2) ELSE start
          IN IF start > 0
             THEN [acc EXCEPT !.ranges =
                     Append(@, [start |-> start,
                                end |-> NormalizedEnd(start, endRaw),
                                reason |-> Trim(m.m3)])]
             ELSE acc
     ELSE IF StartsWith(ToUpperCase(line), NotePrefix)
          THEN [acc EXCEPT !.note = Trim(Slice(line, 5))]
          ELSE acc

RECURSIVE ParseLinesFrom(_, _, _)
ParseLinesFrom(ls, i, acc) ==
  IF i > Len(ls) THEN acc
  ELSE ParseLinesFrom(ls, i + 1, ParseLine(acc, ls[i]))

\* the ranges and the note after the forEach (page.tsx 20-38)
ParseLines(text) ==
  ParseLinesFrom(SplitLines(text), 1, [ranges |-> <<>>, note |-> <<>>])

\* Adjust without the padding
AdjustNoPad(r, totalLines) == r

\* Adjust without the cut at totalLines
AdjustNoClip(r, totalLines) ==
  IF totalLines <= 0 THEN r
  ELSE [r EXCEPT !.start = Max(1, r.start - 1),
                 !.end = Max(r.end, r.start) + 1]

\* the padding of one range (page.tsx 40-45)
Adjust(r, totalLines) ==
  IF totalLines <= 0 THEN r
  ELSE [r EXCEPT !.start = Max(1, r.start - 1),
                 !.end = Min(totalLines, Max(r.end, r.start) + 1)]

parseLocatorText(text, totalLines) ==
  LET p == ParseLines(text)
  IN [ranges |-> [i \in 1..Len(p.ranges) |-> Adjust(p.ranges[i], totalLines)],
      note |-> p.note]

----------------------------------------------------------------------------
(* The values a run draws from *)

\* next.slice(0, 10) (page.tsx 338 and 359)
HistoryCap == 10

SubjectModes == {"cs", "math", "science", "english", "other"}
\* the chips the user clicks in a run
ModeChoices == {"cs", "math"}

OneLine == <<"x">>
BlankText == <<" ">>
FiveLines == <<"a", "\n", "b", "\n", "c", "\n", "d", "\n", "e">>
\* what the user can put into the code box
CodeChoices == {<<>>, BlankText, FiveLines}

AskLoop == "why is my loop infinite"
AskChoices == {"", AskLoop}

ImageA == [name |-> "a.png", src |-> "data:a"]
ImageB == [name |-> "b.png", src |-> "data:b"]
ImageChoices == {ImageA, ImageB}

Oops == <<"O", "o", "p", "s", " ", "EMDASH", " ">>
SomethingWentWrong ==
  <<"s", "o", "m", "e", "t", "h", "i", "n", "g", " ", "w", "e", "n", "t", " ",
    "w", "r", "o", "n", "g", ".">>
RequestFailed ==
  <<"R", "e", "q", "u", "e", "s", "t", " ", "f", "a", "i", "l", "e", "d">>
FailedToExtract ==
  <<"F", "a", "i", "l", "e", "d", " ", "t", "o", " ", "e", "x", "t", "r", "a",
    "c", "t", " ", "c", "o", "d", "e", " ", "f", "r", "o", "m", " ", "i", "m",
    "a", "g", "e">>
NoTextExtractedFromImage ==
  <<"N", "o", " ", "t", "e", "x", "t", " ", "e", "x", "t", "r", "a", "c", "t",
    "e", "d", " ", "f", "r", "o", "m", " ", "i", "m", "a", "g", "e">>
CouldNotLocate ==
  <<"C", "o", "u", "l", "d", " ", "n", "o", "t", " ", "l", "o", "c", "a", "t",
    "e", " ", "l", "i", "n", "e", "s", ":", " ">>
UnknownError ==
  <<"u", "n", "k", "n", "o", "w", "n", " ", "e", "r", "r", "o", "r">>
NoLineRanges ==
  <<"N", "o", " ", "l", "i", "n", "e", " ", "r", "a", "n", "g", "e", "s", " ",
    "r", "e", "t", "u", "r", "n", "e", "d", ".">>

\* What a fetch and the reading of its body come to.  kind "ok": a success
\* response, text = data.aiText (empty when the field is missing).  kind
\* "http": a non-success response, text = data.error (empty when missing).
\* kind "throw": fetch or res.json() rejected, text = the error's message
\* (empty when it has none).
Reply(kind, text) == [kind |-> kind, text |-> text]
Pending == Reply("pending", <<>>)

\* the extraction route answers 422 with this error when it read nothing
NoTextExtracted ==
  <<"N", "o", " ", "t", "e", "x", "t", " ", "e", "x", "t", "r", "a", "c", "t",
    "e", "d">>
FailedToFetch ==
  <<"F", "a", "i", "l", "e", "d", " ", "t", "o", " ", "f", "e", "t", "c", "h">>
ExtractedRaw == <<" ", "y", "\n", "z", "\n">>
HintText ==
  <<"C", "h", "e", "c", "k", " ", "y", "o", "u", "r", " ", "l", "o", "o", "p",
    " ", "c", "o", "n", "d", "i", "t", "i", "o", "n", ".", ".", ".">>
HintIndented == <<"\n", " ", "T", "r", "y", " ">>
LocatorHit2 ==
  <<"L", "I", "N", "E", "S", ":", "\n",
    "-", " ", "2", "-", "2", " ", "|", " ",
    "c", "h", "e", "c", "k", " ", "i", "n", "c", "r", "e", "m", "e", "n", "t", "\n",
    "N", "O", "T", "E", ":", " ", "n", "o", "n", "e">>
LocatorNone ==
  <<"L", "I", "N", "E", "S", ":", "\n", "N", "O", "T", "E", ":", " ", "n", "o", "n", "e">>
LocatorPastEnd == <<"-", " ", "1", "0", " ", "|", " ", "x">>

\* the routes answer 500 with the error's message, "Unknown error" without
ServerError ==
  <<"U", "n", "k", "n", "o", "w", "n", " ", "e", "r", "r", "o", "r">>
Failures(error) == {Reply("http", error), Reply("http", <<>>),
                    Reply("throw", FailedToFetch), Reply("throw", <<>>)}
ExtractReplies ==
  {Reply("ok", ExtractedRaw), Reply("ok", BlankText)}
    \cup Failures(NoTextExtracted)
HintReplies ==
  {Reply("ok", HintText), Reply("ok", HintIndented)} \cup Failures(ServerError)
LocateReplies ==
  {Reply("ok", LocatorHit2), Reply("ok", LocatorNone),
   Reply("ok", LocatorPastEnd)} \cup Failures(ServerError)

\* a history item an earlier session left in localStorage
StoredItem(n) ==
  [id |-> n, timestamp |-> n, mode |-> "cs", ask |-> AskLoop, code |-> OneLine,
   images |-> <<>>, aiText |-> HintText]
\* the list an earlier session left: n items, newest first
StoredHistory(n) == [i \in 1..n |-> StoredItem(n + 1 - i)]
Storage(present, items) == [present |-> present, items |-> items]
StoredLengths == {HistoryCap - 1, HistoryCap}

----------------------------------------------------------------------------
(* Locator texts handed to parseLocatorText *)

ReasonX == <<"x">>
ReasonLoop == <<"c", "h", "e", "c", "k", " ", "t", "h", "e", " ", "l", "o", "o", "p">>
ReasonIncrement == <<"c", "h", "e", "c", "k", " ", "i", "n", "c", "r", "e", "m", "e", "n", "t">>
ReasonNote == <<"n", "o", "t", "e">>
NoteNone == <<"n", "o", "n", "e">>
NoteSeeTop == <<"s", "e", "e", " ", "t", "o", "p">>

\* A line of a locator text, by its make-up.  A bullet has the numbers a and
\* b (b = -1: no second number) and a reason; loose bullets are indented,
\* use the en dash and pad the reason with blanks.  A note line has the
\* spelling of its prefix and a body.  crlf: the line ends in "\r\n".
Bullet(a, b, reason, loose) ==
  [k |-> "bullet", a |-> a, b |-> b, body |-> reason, loose |-> loose,
   tag |-> <<>>, crlf |-> loose]
NoteLine(tag, body, crlf) ==
  [k |-> "note", a |-> 0, b |-> -1, body |-> body, loose |-> crlf,
   tag |-> tag, crlf |-> crlf]
RawLine(chars) ==
  [k |-> "raw", a |-> 0, b |-> -1, body |-> chars, loose |-> FALSE,
   tag |-> <<>>, crlf |-> FALSE]

RenderLine(f) ==
  CASE f.k = "bullet" ->
         IF f.loose
         THEN <<" ", " ", "-">> \o NumberToString(f.a)
              \o (IF f.b >= 0 THEN <<" ", "ENDASH", " ">> \o NumberToString(f.b)
                  ELSE <<>>)
              \o <<"|", " ", " ">> \o f.body \o <<" ">>
         ELSE <<"-", " ">> \o NumberToString(f.a)
              \o (IF f.b >= 0 THEN <<"-">> \o NumberToString(f.b) ELSE <<>>)
              \o <<" ", "|", " ">> \o f.body
    [] f.k = "note" ->
         f.tag \o (IF f.loose THEN <<" ", " ">> \o f.body \o <<" ">>
                   ELSE <<" ">> \o f.body)
    [] OTHER -> f.body

RECURSIVE RenderText(_)
RenderText(fs) ==
  IF Len(fs) = 0 THEN <<>>
  ELSE IF Len(fs) = 1 THEN RenderLine(fs[1])
  ELSE RenderLine(fs[1])
       \o (IF fs[1].crlf THEN <<"\r", "\n">> ELSE <<"\n">>)
       \o RenderText(Tail(fs))

\* every first number up to MaxNum, with no second number, a smaller one
\* (a reversed range), the same one and a larger one
GeneratedBullets ==
  {Bullet(a, b, ReasonX, FALSE) : a \in 0..MaxNum, b \in {-1}} \cup
  {Bullet(a, a + d, ReasonX, FALSE) : a \in 0..MaxNum, d \in {0, 1}} \cup
  {Bullet(a, a - 1, ReasonX, FALSE) : a \in 1..MaxNum}
LooseBullets == {Bullet(1, 2, ReasonLoop, TRUE)}
NoteLines ==
  {NoteLine(<<"N", "O", "T", "E", ":">>, NoteNone, FALSE),
   NoteLine(<<"n", "o", "t", "e", ":">>, NoteSeeTop, TRUE),
   NoteLine(<<"N", "o", "t", "e", ":">>, <<>>, FALSE)}
RawLines ==
  {RawLine(<<"L", "I", "N", "E", "S", ":">>),
   RawLine(<<" ", "N", "O", "T", "E", ":", " ", "x">>),
   RawLine(<<"-", " ", "1", " ", "|">>)}
LineForms == GeneratedBullets \cup LooseBullets \cup NoteLines \cup RawLines

FormTexts == UNION {[1..n -> LineForms] : n \in 0..MaxLines}

\* the texts of the specification's examples
ExampleTexts ==
  {<<Bullet(4, 6, ReasonLoop, FALSE)>>,
   <<Bullet(10, -1, ReasonNote, FALSE)>>,
   <<Bullet(8, 5, ReasonX, FALSE)>>,
   <<RawLine(<<"L", "I", "N", "E", "S", ":">>),
     NoteLine(<<"N", "O", "T", "E", ":">>, NoteNone, FALSE)>>,
   <<RawLine(<<"L", "I", "N", "E", "S", ":">>),
     Bullet(2, 2, ReasonIncrement, FALSE),
     NoteLine(<<"N", "O", "T", "E", ":">>, NoteNone, FALSE)>>}

----------------------------------------------------------------------------
(* The page: state after construction, and the mount effects *)

InitApp ==
  /\ code = <<>> /\ ask = "" /\ images = <<>>
  /\ imageName = "" /\ imagePreview = "null"
  /\ aiText = <<>> /\ isLoading = FALSE /\ subjectMode = "cs"
  /\ history = <<>> /\ lineHints = <<>> /\ lineHintNote = <<>>
  /\ isLocating = FALSE
  /\ mounted = FALSE /\ pc = "idle"
  /\ snap = [code |-> <<>>, ask |-> "", images |-> <<>>, subjectMode |-> "cs"]
  /\ workingCode = <<>> /\ calls = <<>> /\ pushes = 0
  /\ inputs = 0

NoCall ==
  /\ pForm = <<>> /\ pText = <<>> /\ pTotal = 1 /\ pPc = "none"
  /\ pRanges = <<>> /\ pNote = <<>>
  /\ pOut = [ranges |-> <<>>, note |-> <<>>]

\* localStorage holds nothing, or a list an earlier session of the page
\* wrote: at most HistoryCap items, newest first
Init ==
  /\ InitApp /\ NoCall
  /\ \/ storage = Storage(FALSE, <<>>)
     \/ \E n \in StoredLengths : storage = Storage(TRUE, StoredHistory(n))
  /\ now = HistoryCap + 1

\* the effect of page.tsx 105-115 after a render that changed history:
\* setItem("clueai-history-v1", JSON.stringify(history))
Persist(h) == Storage(TRUE, h)

\* page.tsx 90-102 with 105-115: the history is read from localStorage (a
\* missing key leaves it empty), and the persist effect writes it back
Mount ==
  /\ ~mounted
  /\ mounted' = TRUE
  /\ history' = IF storage.present THEN storage.items ELSE <<>>
  /\ storage' = Persist(history')
  /\ UNCHANGED <<code, ask, images, imageName, imagePreview, aiText, isLoading,
                 subjectMode, lineHints, lineHintNote, isLocating, pc, snap,
                 workingCode, calls, pushes, now, inputs, parseVars>>

----------------------------------------------------------------------------
(* What the user does to the inputs *)

\* onChange of the code box (page.tsx 539)
SetCode(t) ==
  /\ mounted /\ inputs < MaxInputs /\ t /= code
  /\ code' = t
  /\ inputs' = inputs + 1
  /\ UNCHANGED <<ask, images, imageName, imagePreview, aiText, isLoading,
                 subjectMode, history, lineHints, lineHintNote, isLocating,
                 storage, mounted, pc, snap, workingCode, calls, pushes, now,
                 parseVars>>

\* onChange of the question (page.tsx 605)
SetAsk(a) ==
  /\ mounted /\ inputs < MaxInputs /\ a /= ask
  /\ ask' = a
  /\ inputs' = inputs + 1
  /\ UNCHANGED <<code, images, imageName, imagePreview, aiText, isLoading,
                 subjectMode, history, lineHints, lineHintNote, isLocating,
                 storage, mounted, pc, snap, workingCode, calls, pushes, now,
                 parseVars>>

\* a click on a subject chip (page.tsx 452)
SetSubjectMode(m) ==
  /\ mounted /\ inputs < MaxInputs /\ m /= subjectMode
  /\ subjectMode' = m
  /\ inputs' = inputs + 1
  /\ UNCHANGED <<code, ask, images, imageName, imagePreview, aiText, isLoading,
                 history, lineHints, lineHintNote, isLocating,
                 storage, mounted, pc, snap, workingCode, calls, pushes, now,
                 parseVars>>

\* addFiles with one image file (page.tsx 218-238), its reader done
AddImage(img) ==
  /\ mounted /\ inputs < MaxInputs /\ Len(images) < MaxImages
  /\ images' = Append(images, img)
  /\ imageName' = img.name
  /\ imagePreview' = IF imagePreview = "null" THEN img.src ELSE imagePreview
  /\ inputs' = inputs + 1
  /\ UNCHANGED <<code, ask, aiText, isLoading,
                 subjectMode, history, lineHints, lineHintNote, isLocating,
                 storage, mounted, pc, snap, workingCode, calls, pushes, now,
                 parseVars>>

\* prev.filter((_, i) => i !== index), index counted from 1 here
RemoveAt(s, index) ==
  [i \in 1..(Len(s) - 1) |-> IF i < index THEN s[i] ELSE s[i + 1]]

\* removeImage on an image list that the history items share instead of
\* holding a copy of it
removeImageShared(index) ==
  /\ mounted /\ inputs < MaxInputs /\ index \in 1..Len(images)
  /\ LET next == RemoveAt(images, index)
     IN /\ images' = next
        /\ history' = [i \in 1..Len(history) |->
                         IF history[i].images = images
                         THEN [history[i] EXCEPT !.images = next]
                         ELSE history[i]]
        /\ IF index = 1
           THEN /\ imagePreview' = IF Len(next) > 0 THEN next[1].src ELSE "null"
                /\ imageName' = IF Len(next) > 0 THEN next[1].name ELSE ""
           ELSE UNCHANGED <<imagePreview, imageName>>
  /\ inputs' = inputs + 1
  /\ UNCHANGED <<code, ask, aiText, isLoading,
                 subjectMode, lineHints, lineHintNote, isLocating,
                 storage, mounted, pc, snap, workingCode, calls, pushes, now,
                 parseVars>>

\* page.tsx 270-280: a new list without the image; the items of the history
\* hold copies made at their insertion (333, 354)
removeImage(index) ==
  /\ mounted /\ inputs < MaxInputs /\ index \in 1..Len(images)
  /\ LET next == RemoveAt(images, index)
     IN /\ images' = next
        /\ IF index = 1
           THEN /\ imagePreview' = IF Len(next) > 0 THEN next[1].src ELSE "null"
                /\ imageName' = IF Len(next) > 0 THEN next[1].name ELSE ""
           ELSE UNCHANGED <<imagePreview, imageName>>
  /\ inputs' = inputs + 1
  /\ UNCHANGED <<code, ask, aiText, isLoading,
                 subjectMode, history, lineHints, lineHintNote, isLocating,
                 storage, mounted, pc, snap, workingCode, calls, pushes, now,
                 parseVars>>

\* onNewPrompt with a button that is never disabled
onNewPromptAnyTime ==
  /\ mounted
  /\ code' = <<>> /\ ask' = "" /\ images' = <<>>
  /\ imageName' = "" /\ imagePreview' = "null"
  /\ aiText' = <<>> /\ isLoading' = FALSE
  /\ lineHints' = <<>> /\ lineHintNote' = <<>>
  /\ UNCHANGED <<subjectMode, history, isLocating, storage, mounted, pc, snap,
                 workingCode, calls, pushes, now, inputs, parseVars>>

\* page.tsx 368-378; its button is disabled while isLoading (696)
onNewPrompt ==
  /\ mounted /\ ~isLoading
  /\ code' = <<>> /\ ask' = "" /\ images' = <<>>
  /\ imageName' = "" /\ imagePreview' = "null"
  /\ aiText' = <<>> /\ isLoading' = FALSE
  /\ lineHints' = <<>> /\ lineHintNote' = <<>>
  /\ UNCHANGED <<subjectMode, history, isLocating, storage, mounted, pc, snap,
                 workingCode, calls, pushes, now, inputs, parseVars>>

\* page.tsx 381-391; its button is rendered while the list is not empty
\* (763).  removeItem runs in the handler; the render that follows changed
\* history, so the persist effect stores the empty list.
onClearHistory ==
  /\ mounted /\ Len(history) > 0
  /\ history' = <<>>
  /\ storage' = Persist(history')
  /\ UNCHANGED <<code, ask, images, imageName, imagePreview, aiText, isLoading,
                 subjectMode, lineHints, lineHintNote, isLocating, mounted, pc,
                 snap, workingCode, calls, pushes, now, inputs,
                 parseVars>>

\* page.tsx 428-431; its button is rendered with the overlay when the
\* locator is not running (542-562)
clearLineHints ==
  /\ mounted /\ Len(lineHints) > 0 /\ ~isLocating
  /\ lineHints' = <<>> /\ lineHintNote' = <<>>
  /\ UNCHANGED <<code, ask, images, imageName, imagePreview, aiText, isLoading,
                 subjectMode, history, isLocating, storage, mounted, pc, snap,
                 workingCode, calls, pushes, now, inputs, parseVars>>

----------------------------------------------------------------------------
(* onHelp (page.tsx 298-364) with extractCodeFromImages and runLocateLines *)

\* needsExtraction without the trim
needsExtractionEmptyOnly(imgs, c) == Len(imgs) > 0 /\ c = <<>>

\* page.tsx 303
needsExtraction(imgs, c) == Len(imgs) > 0 /\ (c = <<>> \/ Trim(c) = <<>>)

\* the object literal of page.tsx 327-335 and 348-356
HistoryItem(mode, a, c, imgs, text) ==
  [id |-> now, timestamp |-> now, mode |-> mode, ask |-> a, code |-> c,
   images |-> imgs, aiText |-> text]

\* PushHistory without the slice
PushHistoryNoCap(prev, item) == <<item>> \o prev

\* PushHistory inserting at the end
PushHistoryAtEnd(prev, item) ==
  SubSeq(prev \o <<item>>, 1, IF Len(prev) + 1 <= 10 THEN Len(prev) + 1 ELSE 10)

\* [item, ...prev].slice(0, 10)
PushHistory(prev, item) ==
  SubSeq(<<item>> \o prev, 1, Min(Len(prev) + 1, HistoryCap))

\* a fetch as the log of calls keeps it
Call(to, c) == [to |-> to, code |-> c, reply |-> Pending]
Answered(log, r) == [log EXCEPT ![Len(log)].reply = r]

\* the message of the Error a reply makes the caller throw: data?.error ||
\* fallback for a non-success response, the rejection's own message otherwise
ThrownMessage(r, fallback) ==
  IF r.kind = "http" /\ r.text = <<>> THEN fallback ELSE r.text

\* NotOk without the checks of res.ok
NotOkOnlyRejected(r) == r.kind = "throw"

\* the reply makes its caller throw: !res.ok (page.tsx 290, 319, 414), or
\* fetch or res.json() rejected
NotOk(r) == r.kind /= "ok"

\* locatorSkipped without the early return
locatorSkippedNever(codeToUse) == FALSE

\* page.tsx 398: runLocateLines returns before its fetch
locatorSkipped(codeToUse) == Len(SplitLines(codeToUse)) = 0 \/ Len(codeToUse) = 0

\* CatchMessage without the fallback
CatchMessageNoFallback(msg) == Oops \o msg

\* page.tsx 342
CatchMessage(msg) ==
  Oops \o (IF msg /= <<>> THEN msg ELSE SomethingWentWrong)

\* FailureItem without the error message
FailureItemNoText(errMsg) ==
  [id |-> now, timestamp |-> now, mode |-> snap.subjectMode, ask |-> snap.ask,
   code |-> snap.code, images |-> snap.images, aiText |-> <<>>]

\* FailureItem storing the working text
FailureItemWorkingCode(errMsg) ==
  HistoryItem(snap.subjectMode, snap.ask, workingCode, snap.images, errMsg)

\* the item the catch block inserts (page.tsx 348-356)
FailureItem(errMsg) ==
  HistoryItem(snap.subjectMode, snap.ask, snap.code, snap.images, errMsg)

\* the item inserted after a hint (page.tsx 327-335)
SuccessItem(cleanText) ==
  HistoryItem(snap.subjectMode, snap.ask, workingCode, snap.images, cleanText)

\* Catch without the finally block
CatchNoFinally(msg) ==
  /\ aiText' = CatchMessage(msg)
  /\ history' = PushHistory(history, FailureItem(CatchMessage(msg)))
  /\ storage' = Persist(history')
  /\ pushes' = pushes + 1
  /\ now' = now + 1
  /\ isLoading' = isLoading
  /\ pc' = "idle"

\* page.tsx 341-363: catch and finally of onHelp, for an Error with message msg
Catch(msg) ==
  /\ aiText' = CatchMessage(msg)
  /\ history' = PushHistory(history, FailureItem(CatchMessage(msg)))
  /\ storage' = Persist(history')
  /\ pushes' = pushes + 1
  /\ now' = now + 1
  /\ isLoading' = FALSE
  /\ pc' = "idle"

\* onHelp clearing the line hints at its start
onHelpClearsHints ==
  /\ mounted /\ ~isLoading /\ inputs < MaxInputs
  /\ inputs' = inputs + 1
  /\ aiText' = <<>>
  /\ isLoading' = TRUE
  /\ lineHints' = <<>> /\ lineHintNote' = <<>>
  /\ snap' = [code |-> code, ask |-> ask, images |-> images,
              subjectMode |-> subjectMode]
  /\ workingCode' = code
  /\ pushes' = 0
  /\ IF needsExtraction(images, code)
     THEN pc' = "extract" /\ calls' = <<Call("extract", <<>>)>>
     ELSE pc' = "hint" /\ calls' = <<Call("hint", code)>>
  /\ UNCHANGED <<code, ask, images, imageName, imagePreview, subjectMode,
                 history, isLocating, storage, mounted, now, parseVars>>

\* onHelp with a button that is never disabled
onHelpReentrant ==
  /\ mounted /\ inputs < MaxInputs
  /\ inputs' = inputs + 1
  /\ aiText' = <<>>
  /\ isLoading' = TRUE
  /\ snap' = [code |-> code, ask |-> ask, images |-> images,
              subjectMode |-> subjectMode]
  /\ workingCode' = code
  /\ pushes' = 0
  /\ IF needsExtraction(images, code)
     THEN pc' = "extract" /\ calls' = <<Call("extract", <<>>)>>
     ELSE pc' = "hint" /\ calls' = <<Call("hint", code)>>
  /\ UNCHANGED <<code, ask, images, imageName, imagePreview, subjectMode,
                 history, lineHints, lineHintNote, isLocating, storage,
                 mounted, now, parseVars>>

\* page.tsx 298-316: the click on "Provide Guidance" up to the first fetch.
\* The button is disabled while isLoading (674).
onHelp ==
  /\ mounted /\ ~isLoading /\ inputs < MaxInputs
  /\ inputs' = inputs + 1
  /\ aiText' = <<>>
  /\ isLoading' = TRUE
  /\ snap' = [code |-> code, ask |-> ask, images |-> images,
              subjectMode |-> subjectMode]
  /\ workingCode' = code
  /\ pushes' = 0
  /\ IF needsExtraction(images, code)
     THEN pc' = "extract" /\ calls' = <<Call("extract", <<>>)>>
     ELSE pc' = "hint" /\ calls' = <<Call("hint", code)>>
  /\ UNCHANGED <<code, ask, images, imageName, imagePreview, subjectMode,
                 history, lineHints, lineHintNote, isLocating, storage,
                 mounted, now, parseVars>>

\* Extracted without the trim
ExtractedUntrimmed(r) == r.text

\* page.tsx 289-294: what extractCodeFromImages returns for a success reply
Extracted(r) == Trim(r.text)

\* page.tsx 282-295 and 306-316: the extraction reply arrives
ExtractReturn(r) ==
  /\ pc = "extract"
  /\ calls' = IF ~NotOk(r) /\ Extracted(r) /= <<>>
              THEN Append(Answered(calls, r), Call("hint", Extracted(r)))
              ELSE Answered(calls, r)
  /\ IF ~NotOk(r)
     THEN IF Extracted(r) /= <<>>
          THEN /\ workingCode' = Extracted(r)
               /\ code' = Extracted(r)
               /\ pc' = "hint"
               /\ UNCHANGED <<aiText, history, storage, pushes, now, isLoading>>
          ELSE /\ Catch(NoTextExtractedFromImage)
               /\ UNCHANGED <<workingCode, code>>
     ELSE /\ Catch(ThrownMessage(r, FailedToExtract))
          /\ UNCHANGED <<workingCode, code>>
  /\ UNCHANGED <<ask, images, imageName, imagePreview, subjectMode, lineHints,
                 lineHintNote, isLocating, mounted, snap, inputs,
                 parseVars>>

\* page.tsx 318-340 and 394-412: the hint reply arrives; on success the
\* response is shown, the history item inserted and runLocateLines started
HintReturn(r) ==
  /\ pc = "hint"
  /\ IF ~NotOk(r)
     THEN LET cleanText == TrimStart(r.text)
          IN /\ aiText' = cleanText
             /\ history' = PushHistory(history, SuccessItem(cleanText))
             /\ storage' = Persist(history')
             /\ pushes' = pushes + 1
             /\ now' = now + 1
             /\ lineHints' = <<>>
             /\ lineHintNote' = <<>>
             /\ IF locatorSkipped(workingCode)
                THEN /\ calls' = Answered(calls, r)
                     /\ isLoading' = FALSE
                     /\ pc' = "idle"
                     /\ UNCHANGED isLocating
                ELSE /\ calls' = Append(Answered(calls, r),
                                        Call("locate", workingCode))
                     /\ isLocating' = TRUE
                     /\ pc' = "locate"
                     /\ UNCHANGED isLoading
     ELSE /\ Catch(ThrownMessage(r, RequestFailed))
          /\ calls' = Answered(calls, r)
          /\ UNCHANGED <<lineHints, lineHintNote, isLocating>>
  /\ UNCHANGED <<code, ask, images, imageName, imagePreview, subjectMode,
                 mounted, snap, workingCode, inputs, parseVars>>

\* page.tsx 419
NoteShown(parsed) ==
  IF parsed.note /= <<>> THEN parsed.note
  ELSE IF Len(parsed.ranges) = 0 THEN NoLineRanges ELSE <<>>

\* LocateError leaving the note empty
LocateErrorSilent(msg) == <<>>

\* page.tsx 421
LocateError(msg) == CouldNotLocate \o (IF msg /= <<>> THEN msg ELSE UnknownError)

\* page.tsx 413-425 and 361-363: the locator reply arrives, runLocateLines
\* and onHelp finish
LocateReturn(r) ==
  /\ pc = "locate"
  /\ calls' = Answered(calls, r)
  /\ IF ~NotOk(r)
     THEN LET parsed == parseLocatorText(r.text, Len(SplitLines(workingCode)))
          IN /\ lineHints' = parsed.ranges
             /\ lineHintNote' = NoteShown(parsed)
     ELSE /\ lineHintNote' = LocateError(ThrownMessage(r, RequestFailed))
          /\ lineHints' = <<>>
  /\ isLocating' = FALSE
  /\ isLoading' = FALSE
  /\ pc' = "idle"
  /\ UNCHANGED <<code, ask, images, imageName, imagePreview, aiText,
                 subjectMode, history, storage, mounted, snap, workingCode,
                 pushes, now, inputs, parseVars>>

----------------------------------------------------------------------------
(* The line highlight classes of the overlay (page.tsx 568-578) *)

codeLines == SplitLines(code)

isPrimary(lineNumber) ==
  \E i \in 1..Len(lineHints) :
    lineNumber >= lineHints[i].start /\ lineNumber <= lineHints[i].end

isContext(lineNumber) ==
  \E i \in 1..Len(lineHints) :
    \/ lineNumber = lineHints[i].start - 1 /\ lineNumber >= 1
    \/ lineNumber = lineHints[i].end + 1 /\ lineNumber <= Len(codeLines)

LineClass(lineNumber) ==
  IF isPrimary(lineNumber) THEN "isHit"
  ELSE IF isContext(lineNumber) THEN "isContext" ELSE ""

----------------------------------------------------------------------------
(* The page as a whole *)

Next ==
  \/ Mount
  \/ \E t \in CodeChoices : SetCode(t)
  \/ \E a \in AskChoices : SetAsk(a)
  \/ \E m \in ModeChoices : SetSubjectMode(m)
  \/ \E img \in ImageChoices : AddImage(img)
  \/ \E i \in 1..MaxImages : removeImage(i)
  \/ onNewPrompt
  \/ onClearHistory
  \/ clearLineHints
  \/ onHelp
  \/ \E r \in ExtractReplies : ExtractReturn(r)
  \/ \E r \in HintReplies : HintReturn(r)
  \/ \E r \in LocateReplies : LocateReturn(r)

Spec == Init /\ [][Next]_vars

\* Every remote call eventually returns: a fetch that is outstanding is
\* answered, with a response or a rejection.
CallsReturn ==
  /\ WF_vars(\E r \in ExtractReplies : ExtractReturn(r))
  /\ WF_vars(\E r \in HintReplies : HintReturn(r))
  /\ WF_vars(\E r \in LocateReplies : LocateReturn(r))

SpecLive == Init /\ [][Next]_vars /\ CallsReturn

----------------------------------------------------------------------------
(* One call of parseLocatorText, in its two phases *)

InitParse ==
  /\ InitApp /\ storage = Storage(FALSE, <<>>) /\ now = HistoryCap + 1
  /\ \/ pForm \in FormTexts /\ pTotal \in -1..MaxTotal
     \/ pForm \in ExampleTexts /\ pTotal \in -1..MaxExampleTotal
  /\ pText = RenderText(pForm)
  /\ pPc = "scan"
  /\ pRanges = <<>> /\ pNote = <<>>
  /\ pOut = [ranges |-> <<>>, note |-> <<>>]

\* page.tsx 20-38: the forEach over the lines
ScanLines ==
  /\ pPc = "scan"
  /\ LET p == ParseLines(pText)
     IN pRanges' = p.ranges /\ pNote' = p.note
  /\ pPc' = "pad"
  /\ UNCHANGED <<pForm, pText, pTotal, pOut, appVars>>

\* page.tsx 40-47: the padding and the return
PadRanges ==
  /\ pPc = "pad"
  /\ pOut' = parseLocatorText(pText, pTotal)
  /\ pPc' = "done"
  /\ UNCHANGED <<pForm, pText, pTotal, pRanges, pNote, appVars>>

NextParse == ScanLines \/ PadRanges

SpecParse == InitParse /\ [][NextParse]_vars

----------------------------------------------------------------------------
(* Claims about the page, checked under Spec *)

\* the calls of the scenario: the hint for the five lines answered with
\* HintText, the locator answered with "LINES:\n- 2-2 | check increment\nNOTE: none"
ScenarioCalls ==
  <<[to |-> "hint", code |-> FiveLines, reply |-> Reply("ok", HintText)],
    [to |-> "locate", code |-> FiveLines, reply |-> Reply("ok", LocatorHit2)]>>

\* the step that completes the scenario's submission, the five lines still
\* in the code box
ScenarioCompletes ==
  /\ pc = "locate" /\ pc' = "idle"
  /\ calls' = ScenarioCalls
  /\ snap.images = <<>>
  /\ code' = FiveLines

\* C1 as stated: when the scenario's submission has completed, the response
\* text is shown verbatim, one history entry has been added, line 2 is hit,
\* lines 1 and 3 are context, lines 4 and 5 are none.
C1_ScenarioAsStated ==
  [][ScenarioCompletes =>
        /\ aiText' = HintText
        /\ pushes' = 1
        /\ LineClass(2)' = "isHit"
        /\ LineClass(1)' = "isContext" /\ LineClass(3)' = "isContext"
        /\ LineClass(4)' = "" /\ LineClass(5)' = ""]_vars

\* C1 as amended: when the scenario's submission has completed, the response
\* text is shown verbatim, one history entry has been added, the line hint
\* is the padded range 1-3, lines 1, 2 and 3 are hit, line 4 is context and
\* line 5 is none.
C1_ScenarioPadded ==
  [][ScenarioCompletes =>
        /\ aiText' = HintText
        /\ pushes' = 1
        /\ Len(lineHints') = 1
        /\ lineHints'[1].start = 1 /\ lineHints'[1].end = 3
        /\ LineClass(1)' = "isHit" /\ LineClass(2)' = "isHit"
        /\ LineClass(3)' = "isHit"
        /\ LineClass(4)' = "isContext"
        /\ LineClass(5)' = ""]_vars

\* the scenario's submission has completed
C1_Witness ==
  /\ pc = "idle" /\ calls = ScenarioCalls /\ code = FiveLines
  /\ snap.images = <<>> /\ snap.ask = AskLoop
  /\ aiText = HintText /\ pushes = 1
  /\ Len(history) > 0 /\ history[1].aiText = HintText
  /\ lineHints = <<[start |-> 1, end |-> 3, reason |-> ReasonIncrement]>>
  /\ LineClass(4) = "isContext"

\* C2: in every reachable state, after the startup load and after any
\* submissions, failed submissions and clear-history operations, the
\* history list holds at most 10 items.
C2_HistoryAtMostTen == Len(history) <= 10

\* a submission has inserted into a list of 10 items loaded at startup
C2_Witness ==
  /\ mounted /\ pc = "idle" /\ pushes = 1
  /\ Len(history) = 10
  /\ history[1].id = 11 /\ history[10].id = 2

IsPrefix(s, t) == Len(s) <= Len(t) /\ s = SubSeq(t, 1, Len(s))

\* C3: every submission, successful or failed, inserts its item at the
\* front; an insertion into a list of 10 drops exactly the last item and
\* keeps the order of the others; the list is always newest first.
C3_NewestFirst ==
  /\ [](\A i, j \in 1..Len(history) : i < j => history[i].id > history[j].id)
  /\ [][/\ (pc /= "idle" /\ pc' = "idle") => pushes' = 1
        /\ (pushes' = pushes + 1) =>
             /\ Len(history') >= 1
             /\ history'[1].id = now
             /\ \A i \in 1..Len(history) : history[i].id < now
             /\ Tail(history') =
                  IF Len(history) < 10 THEN history ELSE SubSeq(history, 1, 9)]_vars

\* a failed submission has inserted its item before the 9 newest of 10
C3_Witness ==
  /\ pc = "idle" /\ pushes = 1 /\ Len(history) = 10
  /\ StartsWith(history[1].aiText, Oops)
  /\ history[2] = StoredItem(10) /\ history[10] = StoredItem(2)

\* the reply the extraction call has in the log
ExtractionReply(log) == log[1].reply

\* C9: a submission that starts with at least one image and no text runs
\* the extraction; when the extraction yields no usable text the submission
\* fails: the response text becomes "Oops — " followed by the extraction
\* error, neither the hint nor the locator service is called, and exactly
\* one history entry is recorded, whose aiText is that message.
C9_ExtractionFails ==
  [][/\ (pc = "idle" /\ pc' /= "idle" /\ Len(images) > 0
           /\ code \in {<<>>, BlankText}) => pc' = "extract"
     /\ (pc = "extract" /\ calls' /= calls
           /\ ~(ExtractionReply(calls').kind = "ok"
                  /\ Trim(ExtractionReply(calls').text) /= <<>>)) =>
          /\ pc' = "idle" /\ ~isLoading'
          /\ StartsWith(aiText', Oops)
          /\ ExtractionReply(calls').kind = "ok" =>
               aiText' = Oops \o NoTextExtractedFromImage
          /\ (ExtractionReply(calls').kind = "http"
                /\ ExtractionReply(calls').text /= <<>>) =>
               aiText' = Oops \o ExtractionReply(calls').text
          /\ Len(calls') = 1
          /\ pushes' = 1
          /\ Len(history') >= 1
          /\ history'[1].aiText = aiText'
          /\ IsPrefix(Tail(history'), history)]_vars

\* a submission of one image and no text has failed on an empty extraction
C9_Witness ==
  /\ pc = "idle" /\ ~isLoading
  /\ Len(snap.images) = 1 /\ snap.code = <<>>
  /\ calls = <<[to |-> "extract", code |-> <<>>, reply |-> Reply("ok", BlankText)]>>
  /\ aiText = Oops \o NoTextExtractedFromImage
  /\ pushes = 1 /\ history[1].aiText = aiText

\* C10: when the hint request fails (a non-success response or a thrown
\* error) the submission is aborted: the locator service is not called, the
\* response text is set to the error message, and exactly one history entry
\* is inserted, whose aiText is the displayed error message.
C10_HintFails ==
  [][(pc = "hint" /\ calls' /= calls
        /\ calls'[Len(calls)].reply.kind /= "ok") =>
       /\ pc' = "idle" /\ ~isLoading'
       /\ \A i \in 1..Len(calls') : calls'[i].to /= "locate"
       /\ aiText' =
            Oops \o (LET r == calls'[Len(calls)].reply
                     IN IF r.text /= <<>> THEN r.text
                        ELSE IF r.kind = "http" THEN RequestFailed
                        ELSE SomethingWentWrong)
       /\ pushes' = 1
       /\ Len(history') >= 1
       /\ history'[1].aiText = aiText'
       /\ history'[1].id = now
       /\ IsPrefix(Tail(history'), history)]_vars

\* a submission has been aborted by a non-success hint response
C10_Witness ==
  /\ pc = "idle" /\ ~isLoading /\ Len(calls) = 1
  /\ calls[1].to = "hint" /\ calls[1].reply = Reply("http", <<>>)
  /\ aiText = Oops \o RequestFailed
  /\ pushes = 1 /\ history[1].aiText = aiText

\* the reply the step has just logged for the call that was outstanding
Returned(log) == log[Len(log)].reply

\* C11: a failure of the locator request (a non-success response, a network
\* error or an unreadable body) after a successful hint is not fatal: the
\* response text shown and the history with its persisted copy stay as they
\* are, no further history entry is inserted, the line hints become empty
\* and the line-hint note carries an error remark.
C11_LocatorFailureIsolated ==
  [][(pc = "locate" /\ calls' /= calls /\ Returned(calls').kind /= "ok") =>
       /\ aiText' = aiText /\ aiText' /= <<>> /\ ~StartsWith(aiText', Oops)
       /\ history' = history /\ storage' = storage
       /\ pushes' = 1
       /\ lineHints' = <<>>
       /\ StartsWith(lineHintNote', CouldNotLocate)
       /\ Len(lineHintNote') > Len(CouldNotLocate)
       /\ pc' = "idle" /\ ~isLoading' /\ ~isLocating']_vars

\* the locator has answered a submission with a non-success response, the
\* hint still shown and recorded
C11_Witness ==
  /\ pc = "idle" /\ ~isLoading /\ Len(calls) = 2
  /\ calls[1].to = "hint" /\ calls[1].reply = Reply("ok", HintText)
  /\ calls[2].to = "locate" /\ calls[2].reply = Reply("http", ServerError)
  /\ aiText = HintText /\ pushes = 1
  /\ Len(history) > 0 /\ history[1].aiText = HintText
  /\ lineHints = <<>>
  /\ lineHintNote = CouldNotLocate \o ServerError

\* C12: once the clear-history operation has taken effect, the persistence
\* step that follows the change of history included, the history list is
\* empty, the persisted copy is gone from storage, and the working state
\* (text, question, images, response, line hints) is as it was.
C12_ClearRemovesCopy ==
  [][(Len(history) > 0 /\ history' = <<>>) =>
       /\ ~storage'.present
       /\ UNCHANGED <<code, ask, images, aiText, lineHints, lineHintNote>>]_vars

\* C13: the reset ("new prompt") operation is available only while no
\* submission is in flight; performed, it sets text, question, images,
\* response text, line hints and line-hint note to empty and leaves the
\* history list, and its persisted copy, as they were.
C13_ResetWhenIdle ==
  /\ [](mounted => (ENABLED onNewPrompt <=> (pc = "idle" /\ ~isLoading)))
  /\ [][onNewPrompt =>
          /\ pc = "idle" /\ pc' = "idle"
          /\ code' = <<>> /\ ask' = "" /\ images' = <<>>
          /\ aiText' = <<>> /\ lineHints' = <<>> /\ lineHintNote' = <<>>
          /\ history' = history /\ storage' = storage]_vars

\* the reset has emptied the inputs, the response and the line hints of a
\* completed submission, whose item is still the first of the history
C13_Witness ==
  /\ pc = "idle" /\ pushes = 1
  /\ Len(calls) = 2 /\ calls[2].reply = Reply("ok", LocatorHit2)
  /\ snap.code = FiveLines /\ snap.ask = AskLoop
  /\ code = <<>> /\ ask = "" /\ images = <<>>
  /\ aiText = <<>> /\ lineHints = <<>> /\ lineHintNote = <<>>
  /\ Len(history) > 0 /\ history[1].code = FiveLines
  /\ history[1].aiText /= <<>>
  /\ storage = Persist(history)

\* C14: snapshot isolation: a history item, once inserted, keeps its stored
\* code, images, question and mode whatever the user then does to the live
\* text, question, images or subject mode, also while the submission that
\* inserted it is still in flight: an item found in the list before and
\* after a step is the same before and after.
C14_SnapshotIsolation ==
  [][\A i \in 1..Len(history) : \A j \in 1..Len(history') :
       history[i].id = history'[j].id =>
         /\ history'[j].code = history[i].code
         /\ history'[j].images = history[i].images
         /\ history'[j].ask = history[i].ask
         /\ history'[j].mode = history[i].mode]_vars

\* the submission that inserted the first item is still in flight, and the
\* image the item holds has been removed from the live images
C14_Witness ==
  /\ pc = "locate" /\ pushes = 1
  /\ Len(history) > 0 /\ history[1].id = now - 1
  /\ history[1].images = <<ImageA>> /\ snap.images = <<ImageA>>
  /\ images = <<>>
  /\ history[1].code = Trim(ExtractedRaw)

\* the endpoints the calls of the current submission went to, in order
Endpoints(log) == [i \in 1..Len(log) |-> log[i].to]

\* C15: within one submission the remote calls are issued in the order
\* extraction, hint, locator, each at most once; a call is issued only when
\* the one before it has returned, so that at most one is outstanding; and
\* the locator is called only after a successful hint response.
C15_CallsInOrder ==
  /\ Endpoints(calls) \in {<<>>, <<"extract">>, <<"extract", "hint">>,
                           <<"extract", "hint", "locate">>,
                           <<"hint">>, <<"hint", "locate">>}
  /\ \A i \in 1..(Len(calls) - 1) : calls[i].reply.kind = "ok"
  /\ \A i \in 1..Len(calls) :
       calls[i].reply = Pending => (i = Len(calls) /\ pc = calls[i].to)
  /\ pc /= "idle" => (Len(calls) > 0 /\ Returned(calls) = Pending)

\* a submission has made its three calls, one after the other
C15_Witness ==
  /\ pc = "idle" /\ Endpoints(calls) = <<"extract", "hint", "locate">>
  /\ calls[1].reply = Reply("ok", ExtractedRaw)
  /\ calls[2].reply = Reply("ok", HintText) /\ calls[2].code = Trim(ExtractedRaw)
  /\ calls[3].reply.kind = "ok" /\ calls[3].code = Trim(ExtractedRaw)
  /\ pushes = 1

\* the step starts a submission: its first call is issued
SubmissionStarts ==
  /\ calls' /= calls
  /\ Len(calls') = 1 /\ calls'[1].reply = Pending

\* C16: at most one submission is active at any time: the in-progress
\* indicator is set exactly while a submission has not reached a terminal
\* state, the trigger is disabled exactly while the indicator is set, and so
\* a submission starts only when no earlier one is still running.
C16_OneSubmission ==
  /\ [](isLoading <=> pc /= "idle")
  /\ []((mounted /\ inputs < MaxInputs) => (ENABLED onHelp <=> ~isLoading))
  /\ [][SubmissionStarts => (pc = "idle" /\ ~isLoading /\ pc' /= "idle")]_vars

\* a second submission is running, the trigger disabled, after the first
\* has reached its end
C16_Witness ==
  /\ mounted /\ inputs < MaxInputs
  /\ pc = "hint" /\ isLoading /\ ~ENABLED onHelp
  /\ Len(history) > 0 /\ history[1].id = now - 1 /\ history[1].id > HistoryCap
  /\ pushes = 0

\* C17: the in-progress indicator is set when a submission starts and is
\* cleared at every terminal outcome: a failed extraction, a failed hint, a
\* hint followed by the locator's answer, good or bad, or by no locator call
\* at all; and, every remote call returning in the end, every submission
\* that has started reaches a state with the indicator cleared.
C17_IndicatorCleared ==
  /\ [][SubmissionStarts => isLoading']_vars
  /\ [][(pc /= "idle" /\ pc' = "idle") => (isLoading /\ ~isLoading')]_vars
  /\ [][(pc /= "idle" /\ calls' /= calls
           /\ \/ calls'[Len(calls)].reply.kind /= "ok"
              \/ pc = "locate"
              \/ pc = "extract" /\ Trim(calls'[Len(calls)].reply.text) = <<>>
              \/ pc = "hint" /\ workingCode = <<>>) =>
          (pc' = "idle" /\ ~isLoading')]_vars
  /\ (isLoading ~> ~isLoading)

\* a submission has ended, the indicator cleared, on a locator call that was
\* rejected without a message
C17_Witness ==
  /\ pc = "idle" /\ ~isLoading /\ ~isLocating /\ pushes = 1
  /\ Endpoints(calls) = <<"hint", "locate">>
  /\ calls[2].reply = Reply("throw", <<>>)
  /\ lineHintNote = CouldNotLocate \o UnknownError

\* the step logs a failure, a non-success response or a rejection, of the
\* call that was outstanding
CallFails ==
  /\ pc /= "idle" /\ calls' /= calls
  /\ calls'[Len(calls)].reply.kind /= "ok"

\* the underlying message of a failure reply, or the fallback given
MessageOr(r, httpFallback, throwFallback) ==
  IF r.text /= <<>> THEN r.text
  ELSE IF r.kind = "http" THEN httpFallback ELSE throwFallback

\* C18 as stated: a service failure of any of the three endpoints,
\* extraction, hint or locator, is shown to the user as a message that
\* starts with "Oops — ", followed by the underlying message or a fallback.
C18_OopsForAllThree ==
  [][CallFails =>
       \/ StartsWith(aiText', Oops) /\ Len(aiText') > Len(Oops)
       \/ StartsWith(lineHintNote', Oops) /\ Len(lineHintNote') > Len(Oops)]_vars

\* C18 as amended: a failure of the extraction or of the hint endpoint is
\* shown as the response text "Oops — " followed by the underlying message,
\* or by a fixed fallback when there is none; a failure of the locator
\* endpoint is shown in the line-hint note as "Could not locate lines: "
\* followed by the underlying message or a fixed fallback, the response
\* text staying the hint.
C18_FailureMessages ==
  [][CallFails =>
       LET r == calls'[Len(calls)].reply
       IN /\ pc = "extract" =>
               aiText' = Oops \o MessageOr(r, FailedToExtract, SomethingWentWrong)
          /\ pc = "hint" =>
               aiText' = Oops \o MessageOr(r, RequestFailed, SomethingWentWrong)
          /\ pc = "locate" =>
               /\ lineHintNote' =
                    CouldNotLocate \o MessageOr(r, RequestFailed, UnknownError)
               /\ aiText' = aiText /\ ~StartsWith(aiText', Oops)]_vars

\* a network failure of the locator is shown in the line-hint note, under
\* the hint
C18_Witness ==
  /\ pc = "idle" /\ Endpoints(calls) = <<"hint", "locate">>
  /\ calls[2].reply = Reply("throw", FailedToFetch)
  /\ lineHintNote = CouldNotLocate \o FailedToFetch
  /\ aiText = HintText /\ lineHints = <<>>

\* the text is empty or holds white space only
NoTextSupplied(c) == \A i \in 1..Len(c) : IsSpace(c[i])

\* C19: a submission enters the extraction step if and only if, at its
\* start, at least one image is present and the text is empty or white space
\* only; when the extraction succeeds the extracted text becomes the working
\* text, sent to the hint and to the locator service, and is written into
\* the text input; when the step is not entered the working text is the text
\* as it was at the start of the submission.
C19_ExtractionEntry ==
  [][/\ SubmissionStarts =>
          /\ pc' = "extract" <=> (Len(images) >= 1 /\ NoTextSupplied(code))
          /\ pc' /= "extract" =>
               /\ pc' = "hint" /\ workingCode' = code
               /\ calls' = <<Call("hint", code)>>
     /\ (pc = "extract" /\ pc' = "hint") =>
          LET t == Trim(calls'[1].reply.text)
          IN /\ calls'[1].reply.kind = "ok" /\ t /= <<>>
             /\ workingCode' = t /\ code' = t
             /\ Len(calls') = 2 /\ calls'[2] = Call("hint", t)
     /\ (pc = "hint" /\ pc' = "locate") =>
          calls'[Len(calls')] =
            Call("locate", IF calls'[1].to = "extract"
                           THEN Trim(calls'[1].reply.text) ELSE snap.code)]_vars

\* a submission of one image and a blank text has gone through the
\* extraction; the extracted text went to the hint and to the locator and
\* stands in the text input
C19_Witness ==
  /\ pc = "idle" /\ snap.code = BlankText /\ Len(snap.images) = 1
  /\ Endpoints(calls) = <<"extract", "hint", "locate">>
  /\ calls[2].code = Trim(ExtractedRaw) /\ calls[3].code = Trim(ExtractedRaw)
  /\ code = Trim(ExtractedRaw) /\ workingCode = code
  /\ history[1].code = code

\* C20: after a successful hint response of a submission whose working text
\* is the empty string (no text and no images supplied) the locator service
\* is not called at all: line hints and line-hint note are set to empty and
\* the submission completes successfully, its history entry inserted.
C20_EmptyTextSkipsLocator ==
  [][(pc = "hint" /\ calls' /= calls /\ workingCode = <<>>
        /\ calls'[Len(calls)].reply.kind = "ok") =>
       /\ snap.images = <<>> /\ snap.code = <<>>
       /\ Endpoints(calls') = <<"hint">>
       /\ lineHints' = <<>> /\ lineHintNote' = <<>>
       /\ pc' = "idle" /\ ~isLoading' /\ ~isLocating'
       /\ aiText' = TrimStart(Returned(calls').text)
       /\ ~StartsWith(aiText', Oops)
       /\ pushes' = 1
       /\ history'[1].id = now /\ history'[1].code = <<>>
       /\ history'[1].aiText = aiText']_vars

\* a submission without text and without images has completed on its hint,
\* the locator never called
C20_Witness ==
  /\ pc = "idle" /\ ~isLoading /\ pushes = 1
  /\ calls = <<[to |-> "hint", code |-> <<>>, reply |-> Reply("ok", HintIndented)]>>
  /\ snap.images = <<>> /\ snap.code = <<>>
  /\ aiText = TrimStart(HintIndented)
  /\ history[1].aiText = aiText /\ history[1].code = <<>>
  /\ lineHints = <<>> /\ lineHintNote = <<>>

\* C21: when the extraction succeeds and the hint request that follows
\* fails, the failure item of the history stores as code the text as it was
\* at the start of the submission (empty or white space only), not the
\* extracted working text, which the extraction wrote into the text input
\* and the failure leaves there; a successful submission stores the working
\* text.
C21_FailureStoresStartText ==
  [][/\ (pc = "hint" /\ CallFails /\ Endpoints(calls) = <<"extract", "hint">>) =>
          /\ workingCode = Trim(calls[1].reply.text) /\ workingCode /= <<>>
          /\ calls[2].code = workingCode
          /\ pushes' = 1 /\ history'[1].id = now
          /\ history'[1].code = snap.code
          /\ NoTextSupplied(history'[1].code)
          /\ history'[1].code /= workingCode
          /\ code' = code
     /\ (pc = "extract" /\ pc' = "hint") =>
          (code' = Trim(calls'[1].reply.text) /\ code' = workingCode')
     /\ (pc = "hint" /\ calls' /= calls
           /\ calls'[Len(calls)].reply.kind = "ok") =>
          /\ pushes' = 1 /\ history'[1].id = now
          /\ history'[1].code = workingCode]_vars

\* the hint has failed after a successful extraction for a blank text: the
\* failure item holds the blank text, the text input the extracted text
C21_Witness ==
  /\ pc = "idle" /\ Endpoints(calls) = <<"extract", "hint">>
  /\ calls[1].reply = Reply("ok", ExtractedRaw)
  /\ calls[2].reply = Reply("http", ServerError)
  /\ snap.code = BlankText
  /\ pushes = 1 /\ history[1].code = BlankText
  /\ history[1].aiText = Oops \o ServerError
  /\ code = Trim(ExtractedRaw) /\ workingCode = code

\* C22: starting a submission clears the response text and leaves line
\* hints and line-hint note as they are; the submission replaces them only
\* when its locator step begins, on a successful hint; so during the
\* extraction and hint steps, and after a submission that fails at the
\* extraction or at the hint, the line hints of the previous submission are
\* still in place (until the user clears them with the overlay's button).
C22_HintsKeptUntilLocator ==
  [][/\ SubmissionStarts =>
          (aiText' = <<>> /\ UNCHANGED <<lineHints, lineHintNote>>)
     /\ (pc = "extract" /\ calls' /= calls) =>
          UNCHANGED <<lineHints, lineHintNote>>
     /\ (pc = "hint" /\ CallFails) =>
          (pc' = "idle" /\ UNCHANGED <<lineHints, lineHintNote>>)
     /\ (pc = "hint" /\ calls' /= calls
           /\ calls'[Len(calls)].reply.kind = "ok") =>
          (lineHints' = <<>> /\ lineHintNote' = <<>>)
     /\ (pc \in {"extract", "hint"} /\ calls' = calls
           /\ <<lineHints, lineHintNote>>' /= <<lineHints, lineHintNote>>) =>
          (clearLineHints /\ lineHints /= <<>>)]_vars

\* a second submission has failed at its hint: the response text is the
\* failure message, the line hints are those the first submission's locator
\* gave
C22_Witness ==
  /\ pc = "idle" /\ pushes = 1
  /\ Endpoints(calls) = <<"hint">> /\ calls[1].reply = Reply("throw", FailedToFetch)
  /\ aiText = Oops \o FailedToFetch
  /\ lineHints = <<[start |-> 1, end |-> 3, reason |-> ReasonIncrement]>>
  /\ Len(history) >= 2
  /\ history[1].aiText = aiText /\ history[2].id = now - 2
  /\ history[2].id > HistoryCap

----------------------------------------------------------------------------
(* Claims about parseLocatorText, checked under SpecParse *)

WellFormedBullet(f) ==
  f.k = "bullet" /\ f.a >= 1 /\ (f.b = -1 \/ f.b >= f.a)

\* the hint the specification gives for a well-formed bullet
ExpectedHint(f, totalLines) ==
  [start |-> Max(1, f.a - 1),
   end |-> Min(totalLines, (IF f.b = -1 THEN f.a ELSE f.b) + 1),
   reason |-> f.body]

TextLoop46 == <<"-", " ", "4", "-", "6", " ", "|", " ",
                "c", "h", "e", "c", "k", " ", "t", "h", "e", " ", "l", "o", "o", "p">>
TextNote10 == <<"-", " ", "1", "0", " ", "|", " ", "n", "o", "t", "e">>
TextReversed85 == <<"-", " ", "8", "-", "5", " ", "|", " ", "x">>
TextLinesNoteNone == <<"L", "I", "N", "E", "S", ":", "\n",
                       "N", "O", "T", "E", ":", " ", "n", "o", "n", "e">>

\* C4: for a text made of well-formed bullets "- a-b | reason" (1 <= a <= b)
\* or "- a | reason" and totalLines > 0, the result has one hint per bullet,
\* in input order, with range [max(1, a-1), min(totalLines, b+1)] and the
\* trimmed reason; "- 4-6 | check the loop" with totalLines >= 8 gives
\* exactly [3,7] "check the loop", and "- 10 | note" with totalLines >= 12
\* gives [9,11].
C4_WellFormedBullets ==
  (pPc = "done" /\ pTotal > 0) =>
    /\ (\A i \in 1..Len(pForm) : WellFormedBullet(pForm[i])) =>
         pOut.ranges = [i \in 1..Len(pForm) |-> ExpectedHint(pForm[i], pTotal)]
    /\ (pText = TextLoop46 /\ pTotal >= 8) =>
         pOut.ranges = <<[start |-> 3, end |-> 7, reason |-> ReasonLoop]>>
    /\ (pText = TextNote10 /\ pTotal >= 12) =>
         /\ Len(pOut.ranges) = 1
         /\ pOut.ranges[1].start = 9 /\ pOut.ranges[1].end = 11

\* a call on two well-formed bullets has returned both hints, in order
C4_Witness ==
  /\ pPc = "done" /\ pTotal = 4 /\ Len(pForm) = 2
  /\ pForm[1] = Bullet(3, -1, ReasonX, FALSE)
  /\ pForm[2] = Bullet(1, 2, ReasonLoop, TRUE)
  /\ pOut.ranges = <<[start |-> 2, end |-> 4, reason |-> ReasonX],
                     [start |-> 1, end |-> 3, reason |-> ReasonLoop]>>

\* C5: for every text and every totalLines > 0 every returned range has
\* start >= 1 and end <= totalLines; for totalLines <= 0 the ranges are
\* returned exactly as parsed, without padding.
C5_PaddingInBounds ==
  pPc = "done" =>
    IF pTotal > 0
    THEN \A i \in 1..Len(pOut.ranges) :
           pOut.ranges[i].start >= 1 /\ pOut.ranges[i].end <= pTotal
    ELSE pOut.ranges = pRanges

\* a range that reached past the last line has been cut to totalLines
C5_Witness ==
  /\ pPc = "done" /\ pTotal = 2
  /\ \E i \in 1..Len(pRanges) :
       pRanges[i].end = 3 /\ pOut.ranges[i].end = 2

\* a call with totalLines = 0 has returned its parsed range unpadded
C5_WitnessZero ==
  /\ pPc = "done" /\ pTotal = 0
  /\ pRanges /= <<>> /\ pOut.ranges = pRanges

\* C6: every LineHint parseLocatorText returns satisfies 1 <= start <= end,
\* for any text and any totalLines, also when a bullet's line numbers are
\* larger than totalLines.
C6_StartLeEnd ==
  pPc = "done" =>
    \A i \in 1..Len(pOut.ranges) :
      1 <= pOut.ranges[i].start /\ pOut.ranges[i].start <= pOut.ranges[i].end

\* C7 as stated: for "- 8-5 | x" the end is normalized to 5, the unpadded
\* hint being the single line 5.
C7_NormalizedToFive ==
  (pPc /= "scan" /\ pText = TextReversed85) =>
    /\ Len(pRanges) = 1
    /\ pRanges[1].start = 5 /\ pRanges[1].end = 5

\* C7 as amended: a reversed bullet "- a-b | x" (b < a) is normalized before
\* padding to the single line a, its first number: for "- 8-5 | x" the
\* unpadded hint is [8,8], which padding (totalLines > 0) turns into start 7
\* and end min(totalLines, 9).
C7_NormalizedToStart ==
  /\ (pPc /= "scan" /\ Len(pForm) = 1 /\ pForm[1].k = "bullet"
        /\ pForm[1].a >= 1 /\ pForm[1].b >= 0 /\ pForm[1].b < pForm[1].a) =>
       /\ Len(pRanges) = 1
       /\ pRanges[1].start = pForm[1].a /\ pRanges[1].end = pForm[1].a
  /\ (pPc /= "scan" /\ pText = TextReversed85) =>
       pRanges = <<[start |-> 8, end |-> 8, reason |-> ReasonX]>>
  /\ (pPc = "done" /\ pText = TextReversed85) =>
       pOut.ranges =
         <<[start |-> IF pTotal > 0 THEN 7 ELSE 8,
            end |-> IF pTotal > 0 THEN Min(pTotal, 9) ELSE 8,
            reason |-> ReasonX]>>

\* "- 8-5 | x" has been parsed and padded in a text of at least 9 lines
C7_Witness ==
  /\ pPc = "done" /\ pText = TextReversed85 /\ pTotal = 12
  /\ pRanges[1].end = 8
  /\ pOut.ranges[1].start = 7 /\ pOut.ranges[1].end = 9

\* the body of the last NOTE line of a text, by its make-up
RECURSIVE LastNoteBody(_)
LastNoteBody(fs) ==
  IF Len(fs) = 0 THEN <<>>
  ELSE IF fs[Len(fs)].k = "note" THEN fs[Len(fs)].body
  ELSE LastNoteBody(SubSeq(fs, 1, Len(fs) - 1))

\* C8: every call returns; a text with no matching bullet gives no ranges;
\* the note is the trimmed text after the "NOTE:" prefix (in any case) of the
\* last NOTE line, or empty when there is none; "LINES:\nNOTE: none" gives
\* no ranges and the note "none".
C8_NoteLastWins ==
  pPc = "done" =>
    /\ pOut.note = LastNoteBody(pForm)
    /\ (\A i \in 1..Len(pForm) : pForm[i].k /= "bullet") => pOut.ranges = <<>>
    /\ pText = TextLinesNoteNone =>
         pOut = [ranges |-> <<>>, note |-> NoteNone]

\* a text with two different NOTE lines and no bullet has been parsed: the
\* second note is the result's
C8_Witness ==
  /\ pPc = "done" /\ Len(pForm) = 2
  /\ pForm[1].k = "note" /\ pForm[2].k = "note"
  /\ pForm[1].body = NoteNone /\ pForm[2].body = NoteSeeTop
  /\ pOut.ranges = <<>> /\ pOut.note = NoteSeeTop

====
